---- MODULE Spec2Model ----
(***************************************************************************)
(* Tool dispatch pipeline of the MCP project template: ToolRegistry        *)
(* (register / use / execute), BaseTool.handler (validate, permission      *)
(* check, timeout race, response shaping), the three middlewares           *)
(* (withLogging, withRateLimit, withRetry) and the MCPError taxonomy.      *)
(*                                                                         *)
(* Time is counted in ticks of 1000 ms.  JavaScript runs every stretch of  *)
(* code between two suspension points (a pending body, a timer) without    *)
(* interruption, so one action is one such stretch.                        *)
(*                                                                         *)
(* Spec is the registry with two definitions under one name and callers    *)
(* of every kind; SpecRegistry has more definitions and one kind of        *)
(* caller; LiveSpec and LiveSpecRegistry add timers that fire;             *)
(* SpecLimiter is one handler made by withRateLimit, called concurrently.  *)
(***************************************************************************)
EXTENDS Integers, Sequences, FiniteSets, TLC

VARIABLES tools, versions, middleware, uses, now, call, dispatched,
          toolCalls, toolDuration, served, limiter

vars == <<tools, versions, middleware, uses, now, call, dispatched,
          toolCalls, toolDuration, served, limiter>>

----------------------------------------------------------------------------
(* Bounds of the exploration *)

MaxCalls == 2

\* For the rate limiter taken alone: calls suspended at one time, and
\* the time that passes
MaxPending == 2
MaxNow == 5

----------------------------------------------------------------------------
(* Values *)

Names == {"a", "b"}
NoVersion == "undefined"
NoLimit == [max |-> 0, window |-> 0]
Undefined == -1
NoUser == ""
NoError == [code |-> "", message |-> "", details |-> [none |-> TRUE], timestamp |-> 0, retryable |-> TRUE]

Middlewares == {"withLogging", "withRateLimit", "withRetry"}

\* The tool definitions handed to register, all under the name "a"; no
\* tool is ever registered under "b".  schema = TRUE: the tool has a
\* schema, which rejects the argument "bad".  Times are in ticks.
ToolA1 ==
  [name |-> "a", version |-> NoVersion, description |-> "first", deprecated |-> FALSE,
   schema |-> TRUE, permissions |-> {}, rateLimit |-> NoLimit, timeout |-> 1]
ToolA2 ==
  [name |-> "a", version |-> "2.0.0", description |-> "second", deprecated |-> TRUE,
   schema |-> FALSE, permissions |-> {"admin"}, rateLimit |-> [max |-> 1, window |-> 3],
   timeout |-> 1]
ToolDefs == {ToolA1, ToolA2}

\* Two more definitions for the registry: one that spells out the version
\* ToolA1 gets by default, and one under a second name, with both a
\* schema and permissions.
ToolA3 == [name |-> "a", version |-> "1.0.0", description |-> "third", deprecated |-> FALSE,
           schema |-> FALSE, permissions |-> {}, rateLimit |-> NoLimit, timeout |-> 1]
ToolB == [name |-> "b", version |-> "1.0.0", description |-> "other", deprecated |-> TRUE,
          schema |-> TRUE, permissions |-> {"admin"}, rateLimit |-> NoLimit, timeout |-> 1]
RegistryDefs == ToolDefs \cup {ToolA3, ToolB}

Args == {"good", "bad"}
ZodIssues == <<"invalid_type">>

Contexts ==
  {[userId |-> NoUser, maxRetries |-> Undefined, permissions |-> {}],
   [userId |-> NoUser, maxRetries |-> 0, permissions |-> {}],
   [userId |-> "u1", maxRetries |-> 1, permissions |-> {}],
   [userId |-> "u1", maxRetries |-> 2, permissions |-> {"admin"}]}

----------------------------------------------------------------------------
(* Error taxonomy *)

HasOwn(details, key) == key \in DOMAIN details

\* new MCPError(message, code, details = {}); an Array passed as details
\* is written [array |-> items]: it has no own property "retryable".
MCPError(message, code, details, t) ==
  [code |-> code, message |-> message, details |-> details, timestamp |-> t,
   retryable |-> IF HasOwn(details, "retryable") THEN details.retryable ELSE TRUE]

\* ToolNotFoundError without "retryable: false" in its details
ToolNotFoundError_Retryable(toolName, t) ==
  MCPError("Tool not found: " \o toolName, "TOOL_NOT_FOUND", [toolName |-> toolName], t)

ToolNotFoundError(toolName, t) ==
  MCPError("Tool not found: " \o toolName, "TOOL_NOT_FOUND",
           [toolName |-> toolName, retryable |-> FALSE], t)

PermissionError(permission, t) ==
  MCPError("Permission denied", "PERMISSION_DENIED",
           [permission |-> permission, retryable |-> FALSE], t)

\* What a tool's execute body may throw: a retryable failure and one
\* whose details set retryable to false.
BodyErrors(t) ==
  {MCPError("upstream unavailable", "UPSTREAM", <<>>, t),
   MCPError("bad request", "FATAL", [retryable |-> FALSE], t)}

\* What a tool's execute body may return: a string or an object.
RawResults == {[type |-> "string", value |-> "done"], [type |-> "object", value |-> "rows"]}

JSONstringify(result) == "{" \o result.value \o "}"

Ok(value) == [ok |-> TRUE, value |-> value, error |-> NoError]
Fail(error) == [ok |-> FALSE, value |-> <<>>, error |-> error]
NoOutcome == [ok |-> FALSE, value |-> <<>>, error |-> NoError]

----------------------------------------------------------------------------
(* One execute call in flight *)

Idle == [mode |-> "idle"]

LogRecord(level, message, c, error) ==
  [level |-> level, message |-> message, tool |-> c.tool.name, error |-> error]

Reverse(s) == [j \in 1..Len(s) |-> s[Len(s) + 1 - j]]

\* The nesting built by "handler = mw(handler, tool)" over the list:
\* every step wraps what was built so far, so the middleware applied
\* last is the outermost one.  The result lists the wrappers from the
\* outermost to the innermost.
RECURSIVE Compose(_, _)
Compose(list, handler) ==
  IF list = <<>> THEN handler
  ELSE Compose(Tail(list), <<Head(list)>> \o handler)

NoTool == [name |-> "undefined"]
NoResult == [type |-> "undefined", value |-> ""]

\* ran is the definition whose execute body the latest attempt started,
\* registered what the registry held under the name at that moment,
\* returned what the body gave to the handler, stages what the handler
\* has done in the latest attempt, in the order in which it did it.
\* starts and ends are the times at which the retry loop has called its
\* inner handler and at which that has settled.  logged is what the
\* inner handler of the logging middleware has returned or thrown.
NewCall(toolName, tool, args, context, chain, t) ==
  [mode |-> "running", toolName |-> toolName, tool |-> tool, args |-> args,
   context |-> context, chain |-> chain, level |-> 0, deadline |-> 0,
   limits |-> [key \in {} |-> <<>>],
   i |-> 0, maxRetries |-> 0, lastError |-> NoError,
   startTime |-> t, endTime |-> 0, outcome |-> NoOutcome,
   log |-> <<>>, seen |-> <<>>,
   background |-> 0, armed |-> <<>>, raised |-> NoOutcome, timeouts |-> 0,
   validations |-> 0, permissionChecks |-> 0, bodyRuns |-> 0, timers |-> 0, sleeps |-> 0,
   ran |-> NoTool, registered |-> NoTool, returned |-> NoResult, stages |-> <<>>,
   starts |-> <<>>, ends |-> <<>>, logged |-> <<>>]

DefaultMaxRetries == 3

\* Math.pow(2, n)
RECURSIVE Pow2(_)
Pow2(n) == IF n = 0 THEN 1 ELSE 2 * Pow2(n - 1)

RECURSIVE Invoke(_, _, _), Settle(_, _, _, _)

(* ---- withLogging ---- *)

\* Entry of the logging wrapper at level k: the invocation record, then
\* the inner handler.
\* withLoggingCall with "context.requestId = requestId"
withLoggingCall_StampsContext(c, k, t) ==
  Invoke([c EXCEPT !.log = Append(@, LogRecord("info", "Tool invocation", c, "")),
                   !.context = [x \in DOMAIN @ \cup {"requestId"} |->
                                  IF x = "requestId" THEN "uuid" ELSE @[x]]], k + 1, t)

withLoggingCall(c, k, t) ==
  Invoke([c EXCEPT !.log = Append(@, LogRecord("info", "Tool invocation", c, ""))], k + 1, t)

\* withLoggingSettle with a catch clause that does not throw
withLoggingSettle_Swallows(c, k, out, t) ==
  LET got == [c EXCEPT !.logged = Append(@, out)] IN
  IF out.ok
  THEN Settle([got EXCEPT !.log = Append(@, LogRecord("info", "Tool success", c, ""))], k - 1, out, t)
  ELSE Settle([got EXCEPT !.log = Append(@, LogRecord("error", "Tool error", c, out.error.message))],
              k - 1, Ok(<<>>), t)

\* The inner handler has settled: one record of the outcome, and the
\* outcome is passed on as it is.
withLoggingSettle(c, k, out, t) ==
  LET got == [c EXCEPT !.logged = Append(@, out)] IN
  IF out.ok
  THEN Settle([got EXCEPT !.log = Append(@, LogRecord("info", "Tool success", c, ""))], k - 1, out, t)
  ELSE Settle([got EXCEPT !.log = Append(@, LogRecord("error", "Tool error", c, out.error.message))],
              k - 1, out, t)

(* ---- withRateLimit ---- *)

RateLimitKey(context) == IF context.userId = NoUser THEN "anonymous" ELSE context.userId

Requests(limits, key) == IF key \in DOMAIN limits THEN limits[key] ELSE <<>>

\* requests.filter(time => time > windowStart)
RecentRequests(requests, windowStart) == SelectSeq(requests, LAMBDA time : time > windowStart)

MapSet(map, key, value) ==
  [x \in DOMAIN map \cup {key} |-> IF x = key THEN value ELSE map[x]]

\* withRateLimitCall with the test "recentRequests.length > max"
withRateLimitCall_OffByOne(c, k, t) ==
  IF c.tool.rateLimit = NoLimit THEN Invoke(c, k + 1, t)
  ELSE LET key == RateLimitKey(c.context)
           windowStart == t - c.tool.rateLimit.window
           recentRequests == RecentRequests(Requests(c.limits, key), windowStart)
       IN IF Len(recentRequests) > c.tool.rateLimit.max
          THEN Settle(c, k - 1, Fail(MCPError("Rate limit exceeded", "RATE_LIMIT", <<>>, t)), t)
          ELSE Invoke([c EXCEPT !.limits = MapSet(@, key, Append(recentRequests, t))], k + 1, t)

withRateLimitCall(c, k, t) ==
  IF c.tool.rateLimit = NoLimit THEN Invoke(c, k + 1, t)
  ELSE LET key == RateLimitKey(c.context)
           windowStart == t - c.tool.rateLimit.window
           recentRequests == RecentRequests(Requests(c.limits, key), windowStart)
       IN IF Len(recentRequests) >= c.tool.rateLimit.max
          THEN Settle(c, k - 1, Fail(MCPError("Rate limit exceeded", "RATE_LIMIT", <<>>, t)), t)
          ELSE Invoke([c EXCEPT !.limits = MapSet(@, key, Append(recentRequests, t))], k + 1, t)

\* "return handler(args, context)": the wrapper adds nothing on the way out
withRateLimitSettle(c, k, out, t) == Settle(c, k - 1, out, t)

(* ---- withRetry ---- *)

\* context.maxRetries || 3
MaxRetriesOf(context) ==
  IF context.maxRetries = Undefined \/ context.maxRetries = 0
  THEN DefaultMaxRetries ELSE context.maxRetries

withRetryCall(c, k, t) ==
  Invoke([c EXCEPT !.maxRetries = MaxRetriesOf(c.context), !.i = 0, !.lastError = NoError,
                   !.starts = Append(@, t)],
         k + 1, t)

\* withRetryNext with the loop test "i < maxRetries"
withRetryNext_OffByOne(c, k, t) ==
  IF c.i + 1 < c.maxRetries
  THEN Invoke([c EXCEPT !.i = @ + 1, !.starts = Append(@, t)], k + 1, t)
  ELSE Settle([c EXCEPT !.i = @ + 1], k - 1, Fail(c.lastError), t)

\* The end of one pass of the for loop: i++, then the loop test.
withRetryNext(c, k, t) ==
  IF c.i + 1 <= c.maxRetries
  THEN Invoke([c EXCEPT !.i = @ + 1, !.starts = Append(@, t)], k + 1, t)
  ELSE Settle([c EXCEPT !.i = @ + 1], k - 1, Fail(c.lastError), t)

\* withRetrySettle with "lastError = lastError || error"
withRetrySettle_KeepsFirst(c, k, out, t) ==
  LET seen == [c EXCEPT !.seen = Append(@, out), !.ends = Append(@, t)] IN
  IF out.ok THEN Settle(seen, k - 1, out, t)
  ELSE LET caught == [seen EXCEPT !.lastError = IF @ = NoError THEN out.error ELSE @] IN
       IF caught.i < caught.maxRetries /\ out.error.retryable # FALSE
       THEN [caught EXCEPT !.mode = "sleep", !.level = k, !.deadline = t + Pow2(caught.i),
                           !.sleeps = @ + 1]
       ELSE withRetryNext(caught, k, t)

\* The awaited inner handler has settled inside the try of the loop body.
withRetrySettle(c, k, out, t) ==
  LET seen == [c EXCEPT !.seen = Append(@, out), !.ends = Append(@, t)] IN
  IF out.ok THEN Settle(seen, k - 1, out, t)
  ELSE LET caught == [seen EXCEPT !.lastError = out.error] IN
       IF caught.i < caught.maxRetries /\ out.error.retryable # FALSE
       THEN [caught EXCEPT !.mode = "sleep", !.level = k, !.deadline = t + Pow2(caught.i),
                           !.sleeps = @ + 1]
       ELSE withRetryNext(caught, k, t)

(* ---- BaseTool.handler ---- *)

\* schema.parse(args): a tool without schema takes the arguments as they are
SchemaAccepts(tool, args) == ~tool.schema \/ args = "good"

\* BaseTool.checkPermissions: "Override in subclasses", an empty body.
\* TRUE: the check lets the call through.
checkPermissions(tool, context) == TRUE

\* The handler settles: raised keeps what it returned or threw, for the
\* wrapper around it
Raise(c, out, t) == Settle([c EXCEPT !.raised = out], Len(c.chain), out, t)

\* handlerCall with the body and its timer started before the validation
handlerCall_RunsFirst(c, t) ==
  LET v == [c EXCEPT !.validations = @ + 1, !.bodyRuns = @ + 1, !.timers = @ + 1] IN
  IF ~SchemaAccepts(c.tool, c.args)
  THEN Raise(v, Fail(MCPError("Validation failed", "VALIDATION_ERROR", [array |-> ZodIssues], t)), t)
  ELSE [v EXCEPT !.mode = "race", !.level = Len(c.chain) + 1, !.deadline = t + c.tool.timeout]

\* handlerCall with a timer of 0 ms
handlerCall_NoWait(c, t) ==
  LET v == [c EXCEPT !.validations = @ + 1] IN
  IF ~SchemaAccepts(c.tool, c.args)
  THEN Raise(v, Fail(MCPError("Validation failed", "VALIDATION_ERROR", [array |-> ZodIssues], t)), t)
  ELSE [v EXCEPT !.mode = "race", !.level = Len(c.chain) + 1, !.deadline = t,
                 !.bodyRuns = @ + 1, !.timers = @ + 1]

\* handlerCall of a handler that looks its tool up in the registry
handlerCall_Rebinds(c, t) ==
  LET v == [c EXCEPT !.validations = @ + 1]
      tool == tools[c.toolName] IN
  IF ~SchemaAccepts(tool, c.args)
  THEN Raise(v, Fail(MCPError("Validation failed", "VALIDATION_ERROR", [array |-> ZodIssues], t)), t)
  ELSE [v EXCEPT !.mode = "race", !.level = Len(c.chain) + 1, !.deadline = t + tool.timeout,
                 !.bodyRuns = @ + 1, !.timers = @ + 1,
                 !.ran = tool, !.registered = tool]

\* handlerCall with the permission check before the validation
handlerCall_ChecksFirst(c, t) ==
  LET p == [c EXCEPT !.permissionChecks = @ + 1, !.stages = <<"authorize">>]
      v == [p EXCEPT !.validations = @ + 1, !.stages = Append(@, "validate")] IN
  IF ~SchemaAccepts(c.tool, c.args)
  THEN Raise(v, Fail(MCPError("Validation failed", "VALIDATION_ERROR", [array |-> ZodIssues], t)), t)
  ELSE [v EXCEPT !.mode = "race", !.level = Len(c.chain) + 1, !.deadline = t + c.tool.timeout,
                 !.bodyRuns = @ + 1, !.timers = @ + 1,
                 !.ran = c.tool, !.registered = tools[c.toolName],
                 !.stages = Append(@, "execute")]

\* The handler up to its first suspension: validation, permission check,
\* then the execute body is started and raced against a timer.
handlerCall(c, t) ==
  LET k == Len(c.chain) + 1
      v == [c EXCEPT !.validations = @ + 1, !.stages = <<"validate">>] IN
  IF ~SchemaAccepts(c.tool, c.args)
  THEN Raise(v, Fail(MCPError("Validation failed", "VALIDATION_ERROR", [array |-> ZodIssues], t)), t)
  ELSE LET p == IF c.tool.permissions # {}
                THEN [v EXCEPT !.permissionChecks = @ + 1, !.stages = Append(@, "authorize")]
                ELSE v IN
       IF c.tool.permissions # {} /\ ~checkPermissions(c.tool, c.context)
       THEN Raise(p, Fail(PermissionError("admin", t)), t)
       ELSE [p EXCEPT !.mode = "race", !.level = k, !.deadline = t + c.tool.timeout,
                      !.bodyRuns = @ + 1, !.timers = @ + 1,
                      !.ran = c.tool,
                      !.registered = IF c.toolName \in DOMAIN tools
                                     THEN tools[c.toolName] ELSE NoTool,
                      !.stages = Append(@, "execute")]

\* Envelope that serializes every result
Envelope_AlwaysSerialized(tool, result) ==
  [content |-> <<[type |-> "text", text |-> JSONstringify(result)]>>,
   metadata |-> [version |-> tool.version]]

\* Response shaping
Envelope(tool, result) ==
  [content |-> <<[type |-> "text",
                  text |-> IF result.type = "string" THEN result.value ELSE JSONstringify(result)]>>,
   metadata |-> [version |-> tool.version]]

\* The race has settled with the body's return value
handlerReturn(c, result, t) ==
  Raise([c EXCEPT !.returned = result, !.stages = Append(@, "shape")],
        Ok(Envelope(c.tool, result)), t)

\* The race has settled with a failure (of the body or of the timer):
\* it is no ZodError, the catch clause throws it again.
handlerThrow(c, error, t) == Raise(c, Fail(error), t)

(* ---- the composed handler ---- *)

Invoke(c, k, t) ==
  IF k > Len(c.chain) THEN handlerCall(c, t)
  ELSE CASE c.chain[k] = "withLogging" -> withLoggingCall(c, k, t)
         [] c.chain[k] = "withRateLimit" -> withRateLimitCall(c, k, t)
         [] c.chain[k] = "withRetry" -> withRetryCall(c, k, t)

\* Level 0 is execute itself, which returns or throws what it awaited.
Settle(c, k, out, t) ==
  IF k = 0 THEN [c EXCEPT !.mode = "done", !.level = 0, !.outcome = out, !.endTime = t]
  ELSE CASE c.chain[k] = "withLogging" -> withLoggingSettle(c, k, out, t)
         [] c.chain[k] = "withRateLimit" -> withRateLimitSettle(c, k, out, t)
         [] c.chain[k] = "withRetry" -> withRetrySettle(c, k, out, t)

----------------------------------------------------------------------------
(* State *)

Statuses == {"success", "error"}

\* MCPServer.setupMiddleware: the order in which the server registers
\* the middlewares
SetupOrder == <<"withLogging", "withRateLimit", "withRetry">>

Init ==
  /\ tools = [n \in {} |-> NoTool]
  /\ versions = [n \in {} |-> NoTool]
  /\ middleware = <<>>
  /\ uses = <<>>
  /\ now = 0
  /\ call = Idle
  /\ dispatched = 0
  /\ toolCalls = [key \in Names \X Statuses |-> 0]
  /\ toolDuration = [n \in Names |-> 0]
  /\ served = <<>>
  /\ limiter = [limits |-> [key \in {} |-> <<>>], pending |-> 0,
                last |-> [key |-> "", accepted |-> FALSE]]

\* VersionKey without the default of the destructuring
VersionKey_NoDefault(tool) == tool.name \o "@" \o tool.version

\* const { name, version = '1.0.0' } = tool
VersionKey(tool) ==
  tool.name \o "@" \o (IF tool.version = NoVersion THEN "1.0.0" ELSE tool.version)

register(tool) ==
  /\ tools' = MapSet(tools, tool.name, tool)
  /\ versions' = MapSet(versions, VersionKey(tool), tool)
  /\ UNCHANGED <<limiter, middleware, uses, now, call, dispatched, toolCalls, toolDuration, served>>

\* use(middleware); uses remembers the order of the use calls
use(mw) ==
  /\ middleware' = Append(middleware, mw)
  /\ uses' = Append(uses, mw)
  /\ UNCHANGED <<limiter, tools, versions, now, call, dispatched, toolCalls, toolDuration, served>>

Limited(c) == c.tool.rateLimit # NoLimit /\ \E k \in DOMAIN c.chain : c.chain[k] = "withRateLimit"

\* The metrics of execute's try and catch, once the awaited handler has
\* settled; a call that is suspended again leaves them alone.
\* toolDuration counts the observations of the histogram.  served is the
\* record of the calls of rate-limited tools that were let through.
Account(c) ==
  IF c.mode = "done"
  THEN /\ toolCalls' = [toolCalls EXCEPT
                          ![<<c.toolName, IF c.outcome.ok THEN "success" ELSE "error">>] = @ + 1]
       /\ toolDuration' = IF c.outcome.ok
                          THEN [toolDuration EXCEPT ![c.toolName] = @ + 1]
                          ELSE toolDuration
       /\ served' = IF Limited(c) /\ (c.outcome.ok \/ c.outcome.error.code # "RATE_LIMIT")
                    THEN Append(served, [tool |-> c.tool, key |-> RateLimitKey(c.context),
                                         at |-> c.startTime])
                    ELSE served
  ELSE UNCHANGED <<toolCalls, toolDuration, served>>

execute(toolName, args, context) ==
  /\ call = Idle
  /\ dispatched < MaxCalls
  /\ dispatched' = dispatched + 1
  /\ IF toolName \notin DOMAIN tools
     THEN /\ call' = [NewCall(toolName, NoTool, args, context, <<>>, now) EXCEPT
                        !.mode = "done", !.endTime = now,
                        !.outcome = Fail(ToolNotFoundError(toolName, now))]
          /\ UNCHANGED <<middleware, toolCalls, toolDuration, served>>
     ELSE LET tool == tools[toolName]
              reversed == Reverse(middleware)
              c == Invoke(NewCall(toolName, tool, args, context,
                                  Compose(reversed, <<>>), now), 1, now)
          IN /\ middleware' = reversed
             /\ call' = c
             /\ Account(c)
  /\ UNCHANGED <<limiter, tools, versions, uses, now>>

\* What a settled race leaves behind: a timer that lost stays armed, a
\* body that lost goes on running.
TimerLost(c, deadline) == [c EXCEPT !.armed = Append(@, deadline)]
BodyLost(c) == [c EXCEPT !.background = @ + 1, !.timeouts = @ + 1]

\* The execute body returns before the timer has fired
BodyReturns(result) ==
  /\ call.mode = "race"
  /\ now < call.deadline
  /\ LET c == handlerReturn(TimerLost(call, call.deadline), result, now)
     IN call' = c /\ Account(c)
  /\ UNCHANGED <<limiter, tools, versions, middleware, uses, now, dispatched>>

\* The execute body throws before the timer has fired
BodyThrows ==
  /\ call.mode = "race"
  /\ now < call.deadline
  /\ \E error \in BodyErrors(now) :
        LET c == handlerThrow(TimerLost(call, call.deadline), error, now)
        IN call' = c /\ Account(c)
  /\ UNCHANGED <<limiter, tools, versions, middleware, uses, now, dispatched>>

\* The timer of withTimeout fires while the body is still running
TimerFires ==
  /\ call.mode = "race"
  /\ now >= call.deadline
  /\ LET c == handlerThrow(BodyLost(call), MCPError("Tool timeout", "TIMEOUT", <<>>, now), now)
     IN call' = c /\ Account(c)
  /\ UNCHANGED <<limiter, tools, versions, middleware, uses, now, dispatched>>

\* The backoff delay of withRetry is over
BackoffEnds ==
  /\ call.mode = "sleep"
  /\ now >= call.deadline
  /\ LET c == withRetryNext([call EXCEPT !.mode = "running"], call.level, now)
     IN call' = c /\ Account(c)
  /\ UNCHANGED <<limiter, tools, versions, middleware, uses, now, dispatched>>

\* A body whose race is over returns or throws: nobody awaits it
BodyEndsLate ==
  /\ call.mode # "idle"
  /\ call.background > 0
  /\ call' = [call EXCEPT !.background = @ - 1]
  /\ UNCHANGED <<limiter, tools, versions, middleware, uses, now, dispatched, toolCalls,
                 toolDuration, served>>

\* TimerFiresLate whose rejection reaches the caller
TimerFiresLate_Rejects ==
  /\ call.mode # "idle"
  /\ call.armed # <<>>
  /\ Head(call.armed) <= now
  /\ call' = [call EXCEPT !.armed = Tail(@),
                          !.outcome = Fail(MCPError("Tool timeout", "TIMEOUT", <<>>, now))]
  /\ UNCHANGED <<limiter, tools, versions, middleware, uses, now, dispatched, toolCalls,
                 toolDuration, served>>

\* A timer whose race is over fires: its rejection is dropped
TimerFiresLate ==
  /\ call.mode # "idle"
  /\ call.armed # <<>>
  /\ Head(call.armed) <= now
  /\ call' = [call EXCEPT !.armed = Tail(@)]
  /\ UNCHANGED <<limiter, tools, versions, middleware, uses, now, dispatched, toolCalls,
                 toolDuration, served>>

InWindow(entry, t) == entry.at > t - entry.tool.rateLimit.window

\* served as it reads once the origin of the clock has moved forward by
\* elapsed: only differences of times are ever computed, and calls whose
\* window is over by then are forgotten.
Rebase(entries, elapsed) ==
  LET live == SelectSeq(entries, LAMBDA entry : InWindow(entry, elapsed))
  IN [j \in DOMAIN live |-> [live[j] EXCEPT !.at = @ - elapsed]]

\* The caller takes the result or the error of the finished call, and
\* the origin of the clock is moved to the present.
\* Bodies and timers the call left behind are referenced by nothing
\* any more and leave the model with it.
Return ==
  /\ call.mode = "done"
  /\ call' = Idle
  /\ now' = 0
  /\ served' = Rebase(served, now)
  /\ UNCHANGED <<limiter, tools, versions, middleware, uses, dispatched, toolCalls, toolDuration>>

TimerDue ==
  /\ call.mode # "idle"
  /\ \/ call.mode \in {"race", "sleep"} /\ call.deadline <= now
     \/ call.armed # <<>> /\ Head(call.armed) <= now

\* Time passes while somebody waits for it: a timer that is due fires
\* before the clock moves on.  A finished call whose result has not been
\* taken yet waits for the timers it left armed.  Between calls the
\* origin of the clock moves along with the present.
Tick ==
  /\ ~TimerDue
  /\ IF call.mode = "idle"
     THEN /\ \E j \in DOMAIN served : InWindow(served[j], now)
          /\ served' = Rebase(served, 1)
          /\ UNCHANGED now
     ELSE /\ \/ call.mode \in {"race", "sleep"}
             \/ call.mode = "done" /\ call.armed # <<>>
          /\ now' = now + 1
          /\ UNCHANGED served
  /\ UNCHANGED <<limiter, tools, versions, middleware, uses, call, dispatched, toolCalls,
                 toolDuration>>

Next ==
  \/ \E tool \in ToolDefs : register(tool)
  \/ Len(uses) < Len(SetupOrder) /\ use(SetupOrder[Len(uses) + 1])
  \/ \E toolName \in Names, args \in Args, context \in Contexts : execute(toolName, args, context)
  \/ \E result \in RawResults : BodyReturns(result)
  \/ BodyThrows
  \/ TimerFires
  \/ BackoffEnds
  \/ BodyEndsLate
  \/ TimerFiresLate
  \/ Return
  \/ Tick

Spec == Init /\ [][Next]_vars

\* One handler made by one application of withRateLimit to the handler
\* of a tool: limiter.limits is the Map of its closure, limiter.pending
\* counts its calls that wait for the tool's handler, limiter.last is
\* the key of its latest call and whether that was let through.
LimiterTool == [ToolA2 EXCEPT !.rateLimit = [max |-> 2, window |-> 2]]

LimiterContexts ==
  {[userId |-> NoUser, maxRetries |-> Undefined, permissions |-> {}],
   [userId |-> "u1", maxRetries |-> Undefined, permissions |-> {}]}

\* A call of the handler, up to its return or to the suspension of the
\* tool's handler
rateLimited(args, context) ==
  /\ limiter.pending < MaxPending
  /\ LET c == withRateLimitCall(
                 [NewCall(LimiterTool.name, LimiterTool, args, context,
                          <<"withRateLimit">>, now) EXCEPT !.limits = limiter.limits],
                 1, now)
     IN limiter' = [limits |-> c.limits,
                    pending |-> limiter.pending + IF c.mode = "race" THEN 1 ELSE 0,
                    last |-> [key |-> RateLimitKey(context), accepted |-> c.mode = "race"]]
  /\ UNCHANGED <<tools, versions, middleware, uses, now, call, dispatched, toolCalls,
                 toolDuration, served>>

\* The tool's handler settles for one of the suspended calls
rateLimitedSettles ==
  /\ limiter.pending > 0
  /\ limiter' = [limiter EXCEPT !.pending = @ - 1]
  /\ UNCHANGED <<tools, versions, middleware, uses, now, call, dispatched, toolCalls,
                 toolDuration, served>>

\* Date.now() has moved on
Elapse ==
  /\ now < MaxNow
  /\ now' = now + 1
  /\ UNCHANGED <<tools, versions, middleware, uses, call, dispatched, toolCalls,
                 toolDuration, served, limiter>>

NextLimiter ==
  \/ \E args \in Args, context \in LimiterContexts : rateLimited(args, context)
  \/ rateLimitedSettles
  \/ Elapse

SpecLimiter == Init /\ [][NextLimiter]_vars

\* getTools: one summary for each value of the tools map
Summary_Whole(tool) == tool

Summary(tool) ==
  [name |-> tool.name, version |-> tool.version, description |-> tool.description,
   deprecated |-> (tool.deprecated \/ FALSE), schema |-> tool.schema]

getTools == {Summary(tools[n]) : n \in DOMAIN tools}

\* The registry under more definitions, and calls of one kind of caller
RegistryContexts == {[userId |-> "u1", maxRetries |-> 1, permissions |-> {}]}

NextRegistry ==
  \/ \E tool \in RegistryDefs : register(tool)
  \/ Len(uses) < Len(SetupOrder) /\ use(SetupOrder[Len(uses) + 1])
  \/ \E toolName \in Names, args \in Args, context \in RegistryContexts :
        execute(toolName, args, context)
  \/ \E result \in RawResults : BodyReturns(result)
  \/ BodyThrows
  \/ TimerFires
  \/ BackoffEnds
  \/ BodyEndsLate
  \/ TimerFiresLate
  \/ Return
  \/ Tick

SpecRegistry == Init /\ [][NextRegistry]_vars

\* Timers fire: a timer that is due runs its callback, and the clock
\* moves on while somebody waits for it.  Nothing makes an execute body
\* end, or a caller call.
TimersFire ==
  /\ WF_vars(Tick)
  /\ WF_vars(TimerFires)
  /\ WF_vars(TimerFiresLate)
  /\ WF_vars(BackoffEnds)

LiveSpec == Spec /\ TimersFire

LiveSpecRegistry == SpecRegistry /\ TimersFire

----------------------------------------------------------------------------
(* Properties *)

InFlight == call.mode # "idle"
Dispatched == InFlight /\ call.tool # NoTool
Done == call.mode = "done" /\ call.tool # NoTool
Has(mw) == \E k \in DOMAIN call.chain : call.chain[k] = mw
Failed(out, code) == ~out.ok /\ out.error.code = code

\* C1: on every execute call of a registered tool the composed handler
\* lists the middlewares in the order of their use calls: the first one
\* registered is the outermost wrapper, the last one the innermost.
C1_FirstRegisteredOutermost ==
  Dispatched => call.chain = SubSeq(uses, 1, Len(call.chain))

\* C2: among the calls of one rate-limited tool under one partition key
\* that went through the rate-limit middleware and were not rejected by
\* it, no more than max were dispatched inside one window.
C2_WindowHoldsAtMostMax ==
  \A j \in DOMAIN served :
     Cardinality({i \in 1..j : /\ served[i].tool = served[j].tool
                               /\ served[i].key = served[j].key
                               /\ served[i].at > served[j].at - served[j].tool.rateLimit.window})
       <= served[j].tool.rateLimit.max

\* C3: with the retry middleware in the chain, a failure of its inner
\* handler whose retryable flag is false is the last outcome the retry
\* loop sees, and it is what a finished call has surfaced.
C3_NonRetryableStopsRetry ==
  (Dispatched /\ Has("withRetry")) =>
     \A j \in DOMAIN call.seen :
        (~call.seen[j].ok /\ call.seen[j].error.retryable = FALSE) =>
           /\ j = Len(call.seen)
           /\ call.mode = "done" => call.outcome = call.seen[j]

AllRetryableFailures ==
  /\ call.seen # <<>>
  /\ \A j \in DOMAIN call.seen : ~call.seen[j].ok /\ call.seen[j].error.retryable

\* C4: a finished call whose retry loop saw only retryable failures has
\* invoked the inner handler maxRetries + 1 times for maxRetries >= 1 in
\* the context, 4 times when the context has no maxRetries, and has failed.
C4_RetryableFailureAttempts ==
  (Done /\ Has("withRetry") /\ AllRetryableFailures /\ call.context.maxRetries # 0) =>
     /\ Len(call.seen) = IF call.context.maxRetries = Undefined THEN 4
                         ELSE call.context.maxRetries + 1
     /\ ~call.outcome.ok

C4_Witness ==
  /\ Done /\ Has("withRetry") /\ AllRetryableFailures
  /\ call.context.maxRetries = Undefined
  /\ Len(call.seen) = 4

\* C5: while a call whose arguments the schema rejects is in flight, the
\* execute body has not run and no timer was started, and what the
\* handler has thrown is the VALIDATION_ERROR carrying the validator's
\* issues.
C5_InvalidArgsNeverRun ==
  (Dispatched /\ call.tool.schema /\ call.args = "bad") =>
     /\ call.bodyRuns = 0
     /\ call.timers = 0
     /\ call.validations > 0 =>
          /\ Failed(call.raised, "VALIDATION_ERROR")
          /\ call.raised.error.details = [array |-> ZodIssues]

C5_Witness ==
  /\ Done /\ call.tool.schema /\ call.args = "bad"
  /\ call.validations > 0
  /\ Failed(call.outcome, "VALIDATION_ERROR")

\* C6: a call whose arguments the schema rejects runs the validation
\* once and never waits for a backoff delay.
C6_ValidationNeverRetried ==
  (Dispatched /\ call.tool.schema /\ call.args = "bad") =>
     call.validations <= 1 /\ call.sleeps = 0

\* C7: a call whose context lacks a permission the tool requires never
\* runs the execute body, and its handler throws PERMISSION_DENIED,
\* which is not retryable.
C7_MissingPermissionDenied ==
  (Dispatched /\ ~(call.tool.permissions \subseteq call.context.permissions)) =>
     /\ call.bodyRuns = 0
     /\ call.validations > 0 =>
          Failed(call.raised, "PERMISSION_DENIED") /\ ~call.raised.error.retryable

EveryAttemptTimedOut ==
  /\ call.bodyRuns >= 1
  /\ call.timeouts = call.bodyRuns
  /\ call.validations = call.bodyRuns
  /\ Has("withRetry") => Len(call.seen) = call.bodyRuns

C9_UnknownToolFails ==
  [][(call.mode = "idle" /\ call'.mode # "idle" /\ call'.toolName \notin DOMAIN tools) =>
       /\ call'.mode = "done"
       /\ Failed(call'.outcome, "TOOL_NOT_FOUND")
       /\ call'.outcome.error.retryable = FALSE
       /\ call'.chain = <<>> /\ call'.log = <<>> /\ call'.seen = <<>>
       /\ call'.validations = 0 /\ call'.bodyRuns = 0 /\ call'.timers = 0
       /\ UNCHANGED <<middleware, toolCalls, toolDuration>>]_vars

C9_Witness ==
  /\ call.mode = "done" /\ call.tool = NoTool
  /\ Failed(call.outcome, "TOOL_NOT_FOUND")
  /\ middleware # <<>>

\* C10: when the retry loop of a finished call has seen a failure last,
\* the call has failed with that very error.
C10_LastErrorSurfaced ==
  (Done /\ Has("withRetry") /\ call.seen # <<>> /\ ~call.seen[Len(call.seen)].ok) =>
     /\ ~call.outcome.ok
     /\ call.outcome.error = call.seen[Len(call.seen)].error

C10_Witness ==
  /\ Done /\ Has("withRetry") /\ Len(call.seen) >= 2
  /\ ~call.seen[1].ok /\ ~call.outcome.ok
  /\ call.seen[1].error.code # call.outcome.error.code
  /\ call.outcome.error = call.seen[Len(call.seen)].error

ErrorRecords(c) == Len(SelectSeq(c.log, LAMBDA record : record.message = "Tool error"))

\* The attempts of the tool's handler that have failed: every attempt
\* starts with the validation, and only the last one can have returned.
HandlerFailures(c) == c.validations - (IF c.raised.ok THEN 1 ELSE 0)

\* C11: a finished call of a server whose middlewares were registered in
\* the order logging, rate limiting, retry has one "Tool error" log
\* record for each failed attempt of the tool's handler, also when a
\* later attempt has succeeded.
C11_EachFailedAttemptLogged ==
  (Done /\ uses = SetupOrder /\ Len(call.chain) = Len(SetupOrder)) =>
     ErrorRecords(call) = HandlerFailures(call)

\* C12: after every step getTools holds exactly one summary for each
\* registered name and none for any other name, every summary has the
\* fields name, version, description, deprecated and schema and no other,
\* and a register call leaves the summary of the definition it was given.
C12_OneSummaryPerName ==
  [][/\ \A n \in DOMAIN tools' : Cardinality({s \in getTools' : s.name = n}) = 1
     /\ \A s \in getTools' :
           /\ s.name \in DOMAIN tools'
           /\ DOMAIN s = {"name", "version", "description", "deprecated", "schema"}
     /\ \A tool \in RegistryDefs :
           register(tool) =>
              [name |-> tool.name, version |-> tool.version,
               description |-> tool.description, deprecated |-> tool.deprecated,
               schema |-> tool.schema] \in getTools']_vars

C12_Witness ==
  /\ Cardinality(getTools) = 2
  /\ \E s \in getTools : s.name = "a" /\ s.description = "third"
  /\ "a@2.0.0" \in DOMAIN versions

\* C13: after every step each definition stored in tools under a name n,
\* with version v or "1.0.0" when it has none, is the value of versions
\* under n@v, and no step removes a key of versions.
C13_VersionIndexFollows ==
  [][/\ \A n \in DOMAIN tools' :
          LET v == IF tools'[n].version = NoVersion THEN "1.0.0" ELSE tools'[n].version
              key == n \o "@" \o v
          IN key \in DOMAIN versions' /\ versions'[key] = tools'[n]
     /\ DOMAIN versions \subseteq DOMAIN versions']_vars

C13_Witness ==
  /\ "a" \in DOMAIN tools /\ tools["a"] = ToolA1
  /\ DOMAIN versions = {"a@1.0.0", "a@2.0.0", "b@1.0.0"}
  /\ versions["a@1.0.0"] = ToolA1

\* C14: the step that completes an execute call of a registered tool
\* adds one to the call counter of the tool's name and of the call's
\* status, success or error, leaves the other counters alone, and
\* records one latency observation for the tool.
C14_CompletionMetered ==
  [][(call.mode # "done" /\ call'.mode = "done" /\ call'.tool # NoTool) =>
       /\ toolCalls' = [toolCalls EXCEPT
                          ![<<call'.toolName,
                              IF call'.outcome.ok THEN "success" ELSE "error">>] = @ + 1]
       /\ toolDuration' = [toolDuration EXCEPT ![call'.toolName] = @ + 1]]_vars

\* C15: a call is dispatched with the definition tools holds under its
\* name at that moment and keeps it until it ends, whatever is registered
\* in between: the execute body every attempt starts is that
\* definition's.
C15_InFlightKeepsDefinition ==
  [][(call'.mode # "idle" /\ call'.tool # NoTool) =>
       /\ call.mode = "idle" => call'.tool = tools[call'.toolName]
       /\ call.mode # "idle" => call'.tool = call.tool
       /\ call'.bodyRuns > 0 => call'.ran = call'.tool]_vars

C15_Witness ==
  /\ call.mode = "race" /\ call.bodyRuns >= 2
  /\ call.registered # call.tool
  /\ call.ran = call.tool

Range(seq) == {seq[j] : j \in DOMAIN seq}

\* C16: every failure the handler has thrown, the retry loop has seen or
\* the call has ended with is not retryable when its code is
\* TOOL_NOT_FOUND, VALIDATION_ERROR or PERMISSION_DENIED, and retryable
\* when its code is TIMEOUT or RATE_LIMIT.
C16_FixedRetryability ==
  InFlight =>
    \A out \in {call.outcome, call.raised} \cup Range(call.seen) :
       ~out.ok =>
          /\ out.error.code \in {"TOOL_NOT_FOUND", "VALIDATION_ERROR", "PERMISSION_DENIED"}
               => out.error.retryable = FALSE
          /\ out.error.code \in {"TIMEOUT", "RATE_LIMIT"} => out.error.retryable = TRUE

\* C17: what a successful call returns has the fields content and
\* metadata; content is one block of type text whose text is the body's
\* result itself when that is a string and its serialization otherwise,
\* and metadata.version is the version of the definition whose body ran.
C17_SuccessEnvelope ==
  (Done /\ call.outcome.ok) =>
     LET envelope == call.outcome.value IN
     /\ DOMAIN envelope = {"content", "metadata"}
     /\ Len(envelope.content) = 1
     /\ envelope.content[1].type = "text"
     /\ envelope.content[1].text = IF call.returned.type = "string"
                                   THEN call.returned.value
                                   ELSE "{" \o call.returned.value \o "}"
     /\ envelope.metadata.version = call.ran.version

C17_Witness ==
  /\ Done /\ call.outcome.ok
  /\ call.returned.type = "string"
  /\ call.outcome.value.content[1].text = "done"
  /\ call.outcome.value.metadata.version = "2.0.0"
  /\ call.bodyRuns >= 2

\* C18: the step that dispatches an execute call of a registered tool
\* leaves the middleware list, tools and versions as they were.
C18_ExecuteReadsOnly ==
  [][(call.mode = "idle" /\ call'.mode # "idle" /\ call'.tool # NoTool) =>
       UNCHANGED <<middleware, tools, versions>>]_vars

\* C19: in a call whose context sets maxRetries to 0 the retry
\* middleware invokes its inner handler once and no more.
C19_ZeroDisablesRetry ==
  (Dispatched /\ Has("withRetry") /\ call.context.maxRetries = 0) =>
     Len(call.seen) <= 1

\* C20: a body that ends and a timer that fires after their race was
\* settled change nothing of the call but their own disappearance: not
\* its outcome, not what the handler raised or the retry loop saw, not
\* the attempt in progress, and no metric.  A timeout leaves its body
\* running.
C20_RaceDecidedOnce ==
  [][(call.mode # "idle" /\ call'.mode # "idle") =>
       /\ (call'.background < call.background \/ Len(call'.armed) < Len(call.armed)) =>
             /\ call' = [call EXCEPT !.background = call'.background,
                                     !.armed = call'.armed]
             /\ UNCHANGED <<toolCalls, toolDuration, served>>
       /\ call'.timeouts > call.timeouts =>
             /\ call.mode = "race"
             /\ call'.timeouts = call.timeouts + 1
             /\ call'.background = call.background + 1
             /\ Failed(call'.raised, "TIMEOUT")]_vars

\* The body has returned, the call has succeeded, and the timer of that
\* race has fired since.
C20_Witness ==
  /\ Done /\ call.outcome.ok /\ call.raised.ok
  /\ call.timers >= 1
  /\ call.armed = <<>>
  /\ now >= call.endTime + call.tool.timeout

StageOrder(tool) ==
  IF tool.permissions = {} THEN <<"validate", "execute", "shape">>
  ELSE <<"validate", "authorize", "execute", "shape">>

\* C21: what the handler has done in an attempt is a beginning of
\* validation, permission check (for a tool that requires permissions),
\* execution, shaping, in this order.  It is the validation alone when
\* the schema rejects the arguments, it ends with the execution while
\* the race is open or when the attempt failed, and it includes the
\* shaping exactly when the handler has returned.
C21_StagesInOrder ==
  (Dispatched /\ call.stages # <<>>) =>
     /\ Len(call.stages) <= Len(StageOrder(call.tool))
     /\ call.stages = SubSeq(StageOrder(call.tool), 1, Len(call.stages))
     /\ (call.tool.schema /\ call.args = "bad") => call.stages = <<"validate">>
     /\ call.mode = "race" => call.stages[Len(call.stages)] = "execute"
     /\ (call.mode # "race" /\ call.raised.ok) <=> call.stages[Len(call.stages)] = "shape"

C21_Witness ==
  /\ Done /\ call.outcome.ok
  /\ call.tool.schema /\ call.tool.permissions # {}
  /\ call.stages = <<"validate", "authorize", "execute", "shape">>

\* C22: no step removes a key of versions or changes the definition a
\* key maps to.
C22_VersionsAppendOnly ==
  [][\A key \in DOMAIN versions :
        key \in DOMAIN versions' /\ versions'[key] = versions[key]]_vars

\* The retries the context of the call asks for
RetriesAsked(context) ==
  IF context.maxRetries = Undefined THEN DefaultMaxRetries ELSE context.maxRetries

\* Holds under LiveSpecRegistry
EveryCallCompletes == Dispatched ~> call.mode = "done"

\* C23: when timers fire, every dispatched call of a registered tool is
\* finished at some time, also when no execute body ever ends; no race
\* is open after its timeout, and the retry loop of a call makes no more
\* than maxRetries + 1 attempts, maxRetries being what the context asks
\* for, 3 when it asks for nothing.
C23_CallsCompleteInBoundedAttempts ==
  /\ EveryCallCompletes
  /\ [](Dispatched =>
          /\ call.mode = "race" => now <= call.deadline
          /\ Len(call.seen) <= RetriesAsked(call.context) + 1)

\* 1 s, 2 s, 4 s, 8 s
Backoff == <<1, 2, 4, 8>>

\* C24: the retry loop starts the attempt that follows a failed attempt
\* with zero-based index i exactly 2^i seconds after that attempt
\* failed, and a call that has failed has failed at the moment its last
\* attempt did.
C24_BackoffIsExponential ==
  (Dispatched /\ Has("withRetry")) =>
     /\ \A j \in DOMAIN call.starts :
           j > 1 => call.starts[j] = call.ends[j - 1] + Backoff[j - 1]
     /\ (call.mode = "done" /\ ~call.outcome.ok /\ call.ends # <<>>) =>
           call.endTime = call.ends[Len(call.ends)]

Suspended == call.mode \in {"race", "sleep"}

\* C25: the log of a call is made of pairs, an invocation record
\* followed by one record of what the inner handler of the logging
\* middleware returned or threw, success or error with the error's
\* message, and of a last invocation record alone while that handler
\* has not settled.  What the middleware got is what it gave: a finished
\* call has ended with it when no retry loop is around the logging, and
\* the retry loop around the logging has seen it otherwise.
C25_LoggingTransparent ==
  (Dispatched /\ Has("withLogging")) =>
     /\ \A j \in DOMAIN call.log :
           IF j % 2 = 1
           THEN call.log[j].message = "Tool invocation"
           ELSE /\ j \div 2 \in DOMAIN call.logged
                /\ LET out == call.logged[j \div 2] IN
                   IF out.ok
                   THEN call.log[j].message = "Tool success" /\ call.log[j].level = "info"
                   ELSE /\ call.log[j].message = "Tool error" /\ call.log[j].level = "error"
                        /\ call.log[j].error = out.error.message
     /\ Len(call.log) \in {2 * Len(call.logged), 2 * Len(call.logged) + 1}
     /\ call.mode = "done" => Len(call.log) = 2 * Len(call.logged)
     /\ IF call.chain[1] = "withRetry"
        THEN ~Suspended \/ call.mode = "sleep" => Range(call.logged) \subseteq Range(call.seen)
        ELSE (call.mode = "done" /\ call.logged # <<>>) =>
                call.outcome = call.logged[Len(call.logged)]

C25_Witness ==
  /\ Done /\ Has("withLogging") /\ call.chain[1] = "withLogging" /\ Len(call.seen) >= 2
  /\ ~call.outcome.ok
  /\ Len(call.log) = 2 /\ call.log[2].error = call.outcome.error.message

\* C26: for one handler made by one application of withRateLimit,
\* whatever the interleaving of its calls: the window of no key holds
\* more than max timestamps newer than now - window; a call that is
\* rejected leaves every window as it was; a call changes the window of
\* no other key than its own; and a call that is let through leaves its
\* key with the timestamps that were newer than now - window, followed
\* by now.
C26_WindowNeverOverfull ==
  [][LET policy == LimiterTool.rateLimit
         Recent(requests, t) == SelectSeq(requests, LAMBDA time : time > t - policy.window)
     IN /\ \A key \in DOMAIN limiter'.limits :
              Len(Recent(limiter'.limits[key], now')) <= policy.max
        /\ (now' = now /\ limiter'.pending >= limiter.pending) =>
              LET own == limiter'.last.key IN
              /\ \A key \in DOMAIN limiter.limits \ {own} :
                    key \in DOMAIN limiter'.limits /\ limiter'.limits[key] = limiter.limits[key]
              /\ ~limiter'.last.accepted => limiter'.limits = limiter.limits
              /\ limiter'.last.accepted =>
                    /\ limiter'.pending = limiter.pending + 1
                    /\ limiter'.limits[own] =
                         Append(Recent(IF own \in DOMAIN limiter.limits
                                       THEN limiter.limits[own] ELSE <<>>, now), now)]_vars

\* A call under one key is rejected while another call is suspended and
\* the other key has a window of its own.
C26_Witness ==
  /\ ~limiter.last.accepted /\ limiter.last.key = "u1"
  /\ limiter.pending >= 1
  /\ DOMAIN limiter.limits = {"anonymous", "u1"}
  /\ Len(limiter.limits["u1"]) = 2

\* C27: the context of a call in flight is one a caller can pass, and
\* it is the same after every step of the call as before it.
C27_ContextUntouched ==
  [][call'.mode # "idle" =>
       IF call.mode = "idle" THEN call'.context \in Contexts
       ELSE call'.context = call.context]_vars

C27_Witness ==
  /\ Done /\ call.chain = <<"withRetry", "withRateLimit", "withLogging">>
  /\ Len(call.log) >= 4
  /\ call.tool.rateLimit # NoLimit
  /\ call.context = [userId |-> "u1", maxRetries |-> 2, permissions |-> {"admin"}]

====
